---- MODULE Spec2Model ----
(***************************************************************************)
(* Model of the movie catalogue API (app/core/models.py,                   *)
(* app/movie/serializers.py, app/movie/views.py).                          *)
(*                                                                         *)
(* The state is the content of the three tables the views touch (Movie,    *)
(* Genre and the Movie.genres junction table), the two auto-increment      *)
(* counters, the image storage, and the request being answered with its    *)
(* response.  Requests are handled one at a time: an action handles one    *)
(* HTTP request from start to end, and Respond hands the response to the   *)
(* client and frees the worker for the next request.  The                  *)
(* database runs in Django's default autocommit mode: no view or           *)
(* serializer opens a transaction, so each ORM write is persisted when it  *)
(* is executed and an exception raised later does not undo it.             *)
(***************************************************************************)
EXTENDS Integers, Sequences, FiniteSets, TLC

\* ------------------------------------------------------------------ bounds
MaxMovies == 2
MaxGenres == 2
MaxGenreList == 2
MaxParamLen == 3
MaxUploads == 1

Users == {"u1", "u2"}
Names == {"a", "b"}
Titles == {"t1", "t2"}
ParamChars == {"1", "2", ",", "x"}

MovieIds == 1..MaxMovies
GenreIds == 1..MaxGenres

\* ------------------------------------------------------------------- state
VARIABLES
    movies,        \* Movie table: id -> [user, title, image]
    nextMovieId,   \* Movie auto-increment counter
    genres,        \* Genre table: id -> [user, name]
    nextGenreId,   \* Genre auto-increment counter
    movie_genres,  \* Movie.genres junction table: set of <<movie id, genre id>>
    files,         \* stored image files (MEDIA_ROOT/uploads/movie/)
    request,       \* the request being answered (op "none": the worker is idle);
                   \* under SpecRace, one such request per worker
    response       \* its response; under SpecRace, one per worker

vars == <<movies, nextMovieId, genres, nextGenreId, movie_genres, files,
          request, response>>

db == <<movies, nextMovieId, genres, nextGenreId, movie_genres, files>>

NoImage == 0

\* A function with an empty domain: an empty dict / an empty table.
Empty == [x \in {} |-> x]

\* The table t without the row k.
Without(t, k) == [x \in DOMAIN t \ {k} |-> t[x]]

\* The dict d with d[k] = v.
With(d, k, v) == [x \in DOMAIN d \cup {k} |-> IF x = k THEN v ELSE d[x]]

\* ------------------------------------------------- views.py: the movie query
\* str.split(','): the pieces between the commas, an empty piece included.
RECURSIVE Split(_)
Split(qs) ==
    IF qs = <<>> THEN << <<>> >>
    ELSE LET rest == Split(Tail(qs))
         IN  IF Head(qs) = ","
             THEN << <<>> >> \o rest
             ELSE << <<Head(qs)>> \o Head(rest) >> \o Tail(rest)

DigitValue(c) ==
    CASE c = "0" -> 0 [] c = "1" -> 1 [] c = "2" -> 2 [] c = "3" -> 3
      [] c = "4" -> 4 [] c = "5" -> 5 [] c = "6" -> 6 [] c = "7" -> 7
      [] c = "8" -> 8 [] c = "9" -> 9

IsDigit(c) == c \in {"0", "1", "2", "3", "4", "5", "6", "7", "8", "9"}

\* int(str_id) raises ValueError unless the piece is a decimal literal.  (Of
\* the characters of ParamChars; int() also accepts a sign, blanks around the
\* digits and underscores between them, none of them in ParamChars.)
IntRaises(tok) == tok = <<>> \/ \E i \in 1..Len(tok) : ~IsDigit(tok[i])

RECURSIVE IntOf(_)
IntOf(tok) ==
    IF tok = <<>> THEN 0
    ELSE IntOf(SubSeq(tok, 1, Len(tok) - 1)) * 10 + DigitValue(tok[Len(tok)])

\* MovieViewSet._params_to_ints: the list of ints, or the ValueError of the
\* first piece int() rejects.
ParamsToInts(qs) ==
    LET toks == Split(qs)
    IN  IF \E i \in 1..Len(toks) : IntRaises(toks[i])
        THEN [raised |-> TRUE, ids |-> <<>>]
        ELSE [raised |-> FALSE, ids |-> [i \in 1..Len(toks) |-> IntOf(toks[i])]]

\* A queryset before ordering is a bag of Movie rows: id -> number of copies.
\* Movie.objects.all()
AllMovies == [m \in DOMAIN movies |-> 1]

\* queryset.filter(genres__id__in=genre_ids): the join with the junction
\* table yields one copy of the movie per junction row whose genre is listed.
FilterGenresIn(qset, genre_ids) ==
    [m \in DOMAIN qset |->
        qset[m] * Cardinality({g \in {genre_ids[i] : i \in 1..Len(genre_ids)} :
                                  <<m, g>> \in movie_genres})]

\* FilterUser without its condition: the queryset of every user's movies.
FilterUserNone(qset, user) == qset

\* queryset.filter(user=self.request.user)
FilterUser(qset, user) ==
    [m \in DOMAIN qset |-> IF movies[m].user = user THEN qset[m] ELSE 0]

Repeat(x, n) == [i \in 1..n |-> x]

\* .order_by('-id'): the rows as a sequence, highest id first.
RECURSIVE OrderByIdDescFrom(_, _)
OrderByIdDescFrom(qset, k) ==
    IF k = 0 THEN <<>>
    ELSE (IF k \in DOMAIN qset THEN Repeat(k, qset[k]) ELSE <<>>)
         \o OrderByIdDescFrom(qset, k - 1)

OrderByIdDesc(qset) == OrderByIdDescFrom(qset, nextMovieId - 1)

\* Distinct left out: the joined rows as they are.
DistinctNone(rows) == rows

\* .distinct(): equal rows collapse into the first of them.
RECURSIVE Distinct(_)
Distinct(rows) ==
    IF rows = <<>> THEN <<>>
    ELSE LET front == Distinct(SubSeq(rows, 1, Len(rows) - 1))
             x == rows[Len(rows)]
         IN  IF \E i \in 1..Len(front) : front[i] = x THEN front
             ELSE Append(front, x)

\* MovieViewSet.get_queryset for the caller `user` and the raw value qs of
\* the `genres` query parameter (<<>>: absent or empty, both falsy).
MovieQueryset(user, qs) ==
    IF qs # <<>> /\ ParamsToInts(qs).raised
    THEN [raised |-> TRUE, rows |-> <<>>]
    ELSE LET base == IF qs # <<>>
                     THEN FilterGenresIn(AllMovies, ParamsToInts(qs).ids)
                     ELSE AllMovies
         IN  [raised |-> FALSE,
              rows |-> Distinct(OrderByIdDesc(FilterUser(base, user)))]

\* GenreViewSet.get_queryset: the caller's genres, by name descending.  The
\* order among equal names is the database's; the model takes ids ascending.
GenreQueryset(user) == {g \in DOMAIN genres : genres[g].user = user}

InSeq(x, s) == \E i \in 1..Len(s) : s[i] = x

\* --------------------------------------- serializers.py: validation, output
\* MovieSerializer.is_valid: title is required unless the update is partial
\* (it stands for running_time_minutes too), genres is optional and each
\* descriptor needs a non-blank name.
MovieDataValid(data, partial) ==
    /\ partial \/ "title" \in DOMAIN data
    /\ "genres" \in DOMAIN data =>
          \A i \in 1..Len(data.genres) : data.genres[i].name # ""

\* MovieValidatedData with `user` among the writable fields.
MovieValidatedDataWithUser(data) ==
    [k \in DOMAIN data \cap {"title", "genres", "user"} |-> data[k]]

\* serializer.validated_data: the declared writable fields the body carries
\* (Meta.fields); any other key, `user` included, is dropped.
MovieValidatedData(data) ==
    [k \in DOMAIN data \cap {"title", "genres"} |-> data[k]]

\* GenreSerializer.is_valid
GenreDataValid(data, partial) ==
    /\ partial \/ "name" \in DOMAIN data
    /\ "name" \in DOMAIN data => data.name # ""

\* RecipeImageSerializer.is_valid: image is required and must decode.
ImageDataValid(data) == "image" \in DOMAIN data /\ data.image = "image"

\* MovieSerializer(movie).data over the tables (ms, gs, mg): the list view.
SerializeMovie(ms, gs, mg, m) ==
    [id |-> m, title |-> ms[m].title,
     genres |-> {[id |-> g, name |-> gs[g].name] :
                    g \in {x \in DOMAIN gs : <<m, x>> \in mg}}]

\* MovieDetailSerializer(movie).data: the list view's fields and the image.
SerializeMovieDetail(ms, gs, mg, m) ==
    [id |-> m, title |-> ms[m].title, image |-> ms[m].image,
     genres |-> {[id |-> g, name |-> gs[g].name] :
                    g \in {x \in DOMAIN gs : <<m, x>> \in mg}}]

SerializeGenre(g) == [id |-> g, name |-> genres[g].name]

\* ------------------------------------------ serializers.py: reconciliation
\* GetOrCreateGenre looking the name up among every user's genres.
GetOrCreateGenreAnyOwner(st, auth_user, genre, movie) ==
    LET found == {g \in DOMAIN st.genres : st.genres[g].name = genre.name}
    IN  IF Cardinality(found) > 1 THEN [st EXCEPT !.raised = TRUE]
        ELSE IF found = {}
        THEN [st EXCEPT
                !.genres = With(st.genres, st.nextGenreId,
                                [user |-> auth_user, name |-> genre.name]),
                !.nextGenreId = st.nextGenreId + 1,
                !.movie_genres = st.movie_genres \cup {<<movie, st.nextGenreId>>}]
        ELSE [st EXCEPT
                !.movie_genres = st.movie_genres
                                    \cup {<<movie, CHOOSE g \in found : TRUE>>}]

\* Genre.objects.get_or_create(user=auth_user, name=name) followed by
\* movie.genres.add(genre_obj), on the tables st.  get() raises
\* MultipleObjectsReturned when several rows match; nothing catches it.
GetOrCreateGenre(st, auth_user, genre, movie) ==
    LET found == {g \in DOMAIN st.genres :
                     /\ st.genres[g].user = auth_user
                     /\ st.genres[g].name = genre.name}
    IN  IF Cardinality(found) > 1 THEN [st EXCEPT !.raised = TRUE]
        ELSE IF found = {}
        THEN [st EXCEPT
                !.genres = With(st.genres, st.nextGenreId,
                                [user |-> auth_user, name |-> genre.name]),
                !.nextGenreId = st.nextGenreId + 1,
                !.movie_genres = st.movie_genres \cup {<<movie, st.nextGenreId>>}]
        ELSE [st EXCEPT
                !.movie_genres = st.movie_genres
                                    \cup {<<movie, CHOOSE g \in found : TRUE>>}]

\* MovieSerializer._get_or_create_genres: the loop, left at the first raise.
RECURSIVE GetOrCreateGenres(_, _, _, _)
GetOrCreateGenres(st, auth_user, genre_list, movie) ==
    IF genre_list = <<>> \/ st.raised THEN st
    ELSE GetOrCreateGenres(GetOrCreateGenre(st, auth_user, Head(genre_list), movie),
                           auth_user, Tail(genre_list), movie)

Tables == [genres |-> genres, nextGenreId |-> nextGenreId,
           movie_genres |-> movie_genres, raised |-> FALSE]

\* ------------------------------------------------------------ the requests
Req(op, user, pk, qs, data, partial) ==
    [op |-> op, user |-> user, pk |-> pk, qs |-> qs, data |-> data,
     partial |-> partial]

Resp(status, data) == [status |-> status, data |-> data]

NoRequest == Req("none", "u1", 0, <<>>, Empty, FALSE)

Idle == request.op = "none"

Init ==
    /\ movies = Empty
    /\ nextMovieId = 1
    /\ genres = Empty
    /\ nextGenreId = 1
    /\ movie_genres = {}
    /\ files = {}
    /\ request = NoRequest
    /\ response = Resp(0, <<>>)

\* GenericAPIView.get_object over MovieViewSet.get_queryset: "raised" (the
\* ValueError of get_queryset), "missing" (Http404) or "found".
GetMovie(user, pk, qs) ==
    LET q == MovieQueryset(user, qs)
    IN  IF q.raised THEN "raised"
        ELSE IF InSeq(pk, q.rows) THEN "found" ELSE "missing"

\* GenericAPIView.get_object over GenreViewSet.get_queryset.
GetGenre(user, pk) == IF pk \in GenreQueryset(user) THEN "found" ELSE "missing"

\* GET /movies/?genres=qs
MovieList(user, qs) ==
    LET q == MovieQueryset(user, qs)
    IN  /\ Idle
        /\ request' = Req("movie-list", user, 0, qs, Empty, FALSE)
        /\ response' =
              IF q.raised THEN Resp(500, <<>>)
              ELSE Resp(200, [i \in 1..Len(q.rows) |->
                                SerializeMovie(movies, genres, movie_genres,
                                               q.rows[i])])
        /\ UNCHANGED db

\* GET /movies/pk/
MovieRetrieve(user, pk, qs) ==
    LET got == GetMovie(user, pk, qs)
    IN  /\ Idle
        /\ request' = Req("movie-retrieve", user, pk, qs, Empty, FALSE)
        /\ response' =
              CASE got = "raised" -> Resp(500, <<>>)
                [] got = "missing" -> Resp(404, <<>>)
                [] got = "found" ->
                     Resp(200, <<SerializeMovieDetail(movies, genres,
                                                      movie_genres, pk)>>)
        /\ UNCHANGED db

\* MovieSerializer.create with validated_data and the user= that
\* perform_create passes to save(): the Movie row is inserted first, the
\* genres are reconciled after it.
SerializerCreate(user, validated_data) ==
    LET genre_list == IF "genres" \in DOMAIN validated_data
                      THEN validated_data.genres ELSE <<>>
        movie == nextMovieId
        row == [user |-> user, title |-> validated_data.title,
                image |-> NoImage]
    IN  [movies |-> With(movies, movie, row),
         st |-> GetOrCreateGenres(Tables, user, genre_list, movie)]

\* POST /movies/
MovieCreate(user, data) ==
    /\ nextMovieId <= MaxMovies
    /\ Idle
    /\ request' = Req("movie-create", user, 0, <<>>, data, FALSE)
    /\ IF ~MovieDataValid(data, FALSE)
       THEN /\ response' = Resp(400, <<>>)
            /\ UNCHANGED db
       ELSE LET out == SerializerCreate(user, MovieValidatedData(data))
            IN  /\ out.st.nextGenreId <= MaxGenres + 1
                /\ movies' = out.movies
                /\ nextMovieId' = nextMovieId + 1
                /\ genres' = out.st.genres
                /\ nextGenreId' = out.st.nextGenreId
                /\ movie_genres' = out.st.movie_genres
                /\ UNCHANGED files
                /\ response' =
                      IF out.st.raised THEN Resp(500, <<>>)
                      ELSE Resp(201, <<SerializeMovieDetail(
                                         out.movies, out.st.genres,
                                         out.st.movie_genres, nextMovieId)>>)

\* instance.genres.clear()
ClearGenres(st, movie) ==
    [st EXCEPT !.movie_genres = {l \in st.movie_genres : l[1] # movie}]

\* The setattr loop of MovieSerializer.update and instance.save(): every key
\* left in validated_data overwrites the field of that name.
SetAttrs(row, validated_data) ==
    [f \in DOMAIN row |->
        IF f \in DOMAIN validated_data \ {"genres"} THEN validated_data[f]
        ELSE row[f]]

\* SerializerUpdate taking an absent genres key for an empty list.
SerializerUpdateDefaultEmpty(user, movie, validated_data) ==
    LET st == ClearGenres(Tables, movie)
    IN  [movies |-> [movies EXCEPT
                       ![movie] = SetAttrs(movies[movie], validated_data)],
         st |-> IF "genres" \in DOMAIN validated_data
                THEN GetOrCreateGenres(st, user, validated_data.genres, movie)
                ELSE st]

\* MovieSerializer.update: genres, when given, are cleared and reconciled
\* before the fields are set and the row is saved; a raise in between leaves
\* the row as it was.
SerializerUpdate(user, movie, validated_data) ==
    LET st == IF "genres" \in DOMAIN validated_data
              THEN GetOrCreateGenres(ClearGenres(Tables, movie), user,
                                     validated_data.genres, movie)
              ELSE Tables
    IN  [movies |-> IF st.raised THEN movies
                    ELSE [movies EXCEPT
                            ![movie] = SetAttrs(movies[movie], validated_data)],
         st |-> st]

\* PUT /movies/pk/ (partial = FALSE), PATCH /movies/pk/ (partial = TRUE)
MovieUpdate(user, pk, qs, data, partial) ==
    LET got == GetMovie(user, pk, qs)
    IN  /\ Idle
        /\ request' = Req("movie-update", user, pk, qs, data, partial)
        /\ IF got # "found" \/ ~MovieDataValid(data, partial)
           THEN /\ response' = Resp(IF got = "raised" THEN 500
                                    ELSE IF got = "missing" THEN 404 ELSE 400,
                                    <<>>)
                /\ UNCHANGED db
           ELSE LET out == SerializerUpdate(user, pk, MovieValidatedData(data))
                IN  /\ out.st.nextGenreId <= MaxGenres + 1
                    /\ movies' = out.movies
                    /\ genres' = out.st.genres
                    /\ nextGenreId' = out.st.nextGenreId
                    /\ movie_genres' = out.st.movie_genres
                    /\ UNCHANGED <<nextMovieId, files>>
                    /\ response' =
                          IF out.st.raised THEN Resp(500, <<>>)
                          ELSE Resp(200, <<SerializeMovieDetail(
                                             out.movies, out.st.genres,
                                             out.st.movie_genres, pk)>>)

\* DELETE /movies/pk/: the row and its junction rows go; the image file stays.
MovieDestroy(user, pk, qs) ==
    LET got == GetMovie(user, pk, qs)
    IN  /\ Idle
        /\ request' = Req("movie-destroy", user, pk, qs, Empty, FALSE)
        /\ IF got # "found"
           THEN /\ response' = Resp(IF got = "raised" THEN 500 ELSE 404, <<>>)
                /\ UNCHANGED db
           ELSE /\ movies' = Without(movies, pk)
                /\ movie_genres' = {l \in movie_genres : l[1] # pk}
                /\ response' = Resp(204, <<>>)
                /\ UNCHANGED <<nextMovieId, genres, nextGenreId, files>>

\* movie_image_file_path: uploads/movie/<uuid4><ext>, a name no stored file
\* has; the model numbers the files.
MovieImageFilePath == Cardinality(files) + 1

\* POST /movies/pk/upload-image/
MovieUploadImage(user, pk, qs, data) ==
    LET got == GetMovie(user, pk, qs)
    IN  /\ Idle
        /\ request' = Req("movie-upload-image", user, pk, qs, data, FALSE)
        /\ IF got # "found" \/ ~ImageDataValid(data)
           THEN /\ response' = Resp(IF got = "raised" THEN 500
                                    ELSE IF got = "missing" THEN 404 ELSE 400,
                                    <<>>)
                /\ UNCHANGED db
           ELSE /\ Cardinality(files) < MaxUploads
                /\ files' = files \cup {MovieImageFilePath}
                /\ movies' = [movies EXCEPT ![pk].image = MovieImageFilePath]
                /\ response' = Resp(200, <<[id |-> pk,
                                            image |-> MovieImageFilePath]>>)
                /\ UNCHANGED <<nextMovieId, genres, nextGenreId, movie_genres>>

NameRank(n) == CASE n = "a" -> 1 [] n = "b" -> 2 [] OTHER -> 0

\* .order_by('-name') of a set of genre ids.
RECURSIVE OrderByNameDesc(_)
OrderByNameDesc(gs) ==
    IF gs = {} THEN <<>>
    ELSE LET top == CHOOSE g \in gs :
                      \A h \in gs :
                         \/ NameRank(genres[h].name) < NameRank(genres[g].name)
                         \/ /\ genres[h].name = genres[g].name
                            /\ g <= h
         IN  <<top>> \o OrderByNameDesc(gs \ {top})

\* GET /tags/
GenreList(user) ==
    LET rows == OrderByNameDesc(GenreQueryset(user))
    IN  /\ Idle
        /\ request' = Req("genre-list", user, 0, <<>>, Empty, FALSE)
        /\ response' = Resp(200, [i \in 1..Len(rows) |-> SerializeGenre(rows[i])])
        /\ UNCHANGED db

\* PUT /tags/pk/ (partial = FALSE), PATCH /tags/pk/ (partial = TRUE)
GenreUpdate(user, pk, data, partial) ==
    LET got == GetGenre(user, pk)
    IN  /\ Idle
        /\ request' = Req("genre-update", user, pk, <<>>, data, partial)
        /\ IF got # "found" \/ ~GenreDataValid(data, partial)
           THEN /\ response' = Resp(IF got = "missing" THEN 404 ELSE 400, <<>>)
                /\ UNCHANGED db
           ELSE /\ genres' = [genres EXCEPT
                                ![pk] = [f \in DOMAIN genres[pk] |->
                                           IF f \in DOMAIN data THEN data[f]
                                           ELSE genres[pk][f]]]
                /\ response' = Resp(200, <<[id |-> pk, name |-> genres'[pk].name]>>)
                /\ UNCHANGED <<movies, nextMovieId, nextGenreId, movie_genres,
                               files>>

\* GenreDestroy leaving the junction rows of the deleted genre behind.
GenreDestroyKeepsRows(user, pk) ==
    LET got == GetGenre(user, pk)
    IN  /\ Idle
        /\ request' = Req("genre-destroy", user, pk, <<>>, Empty, FALSE)
        /\ IF got # "found"
           THEN /\ response' = Resp(404, <<>>)
                /\ UNCHANGED db
           ELSE /\ genres' = Without(genres, pk)
                /\ response' = Resp(204, <<>>)
                /\ UNCHANGED <<movies, nextMovieId, nextGenreId, files,
                               movie_genres>>

\* DELETE /tags/pk/: the row goes, and with it the junction rows that
\* reference it.
GenreDestroy(user, pk) ==
    LET got == GetGenre(user, pk)
    IN  /\ Idle
        /\ request' = Req("genre-destroy", user, pk, <<>>, Empty, FALSE)
        /\ IF got # "found"
           THEN /\ response' = Resp(404, <<>>)
                /\ UNCHANGED db
           ELSE /\ genres' = Without(genres, pk)
                /\ movie_genres' = {l \in movie_genres : l[2] # pk}
                /\ response' = Resp(204, <<>>)
                /\ UNCHANGED <<movies, nextMovieId, nextGenreId, files>>

\* The response goes to the client; the worker takes the next request.
Respond ==
    /\ ~Idle
    /\ request' = NoRequest
    /\ response' = Resp(0, <<>>)
    /\ UNCHANGED db

\* ---------------------------------------------------------- the request sets
\* Raw values of the `genres` query parameter, <<>> for none.
QueryStrings == UNION {[1..n -> ParamChars] : n \in 0..MaxParamLen}

\* A blank genre name is what GenreSerializer's name field rejects.
GenreDescriptors == {[name |-> n] : n \in Names}

GenreLists ==
    UNION {[1..n -> GenreDescriptors] : n \in 0..MaxGenreList}
        \cup {<<[name |-> ""]>>}

\* Request bodies: any of title, user and genres, present or not.  `user` is
\* no field of any serializer.
Bodies(titles, users, lists) ==
    {t @@ u @@ g :
        t \in {Empty} \cup {[title |-> x] : x \in titles},
        u \in {Empty} \cup {[user |-> x] : x \in users},
        g \in {Empty} \cup {[genres |-> x] : x \in lists}}

GenrePayloads == {Empty} \cup {[name |-> n] : n \in Names \cup {""}}

ImagePayloads == {Empty, [image |-> "image"], [image |-> "notanimage"]}

\* One request, its query strings drawn from LQ (list) and DQ (the URLs of
\* one movie) and its movie body from MP.
Requests(LQ, DQ, MP) ==
    \/ \E user \in Users, qs \in LQ : MovieList(user, qs)
    \/ \E user \in Users, pk \in MovieIds, qs \in DQ :
          MovieRetrieve(user, pk, qs)
    \/ \E user \in Users, data \in MP : MovieCreate(user, data)
    \/ \E user \in Users, pk \in MovieIds, qs \in DQ, data \in MP,
          partial \in BOOLEAN : MovieUpdate(user, pk, qs, data, partial)
    \/ \E user \in Users, pk \in MovieIds, qs \in DQ :
          MovieDestroy(user, pk, qs)
    \/ \E user \in Users, pk \in MovieIds, qs \in DQ, data \in ImagePayloads :
          MovieUploadImage(user, pk, qs, data)
    \/ \E user \in Users : GenreList(user)
    \/ \E user \in Users, pk \in GenreIds, data \in GenrePayloads,
          partial \in BOOLEAN : GenreUpdate(user, pk, data, partial)
    \/ \E user \in Users, pk \in GenreIds : GenreDestroy(user, pk)

\* Ownership: both users on every URL, with and without a filter.
Next ==
    \/ Requests({<<>>, <<"1">>, <<"x">>}, {<<>>, <<"1">>, <<"x">>},
                Bodies({"t1"}, {}, {<<[name |-> "a"]>>}))
    \/ Respond

Spec == Init /\ [][Next]_vars

\* Fields: every body key and value, no filter.
NextFields ==
    \/ Requests({<<>>}, {<<>>}, Bodies(Titles, Users, {<<[name |-> "a"]>>}))
    \/ Respond

SpecFields == Init /\ [][NextFields]_vars

\* Reconciliation: every genre list, one title, no filter.
NextGenres ==
    \/ Requests({<<>>}, {<<>>}, Bodies({"t1"}, {}, GenreLists))
    \/ Respond

SpecGenres == Init /\ [][NextGenres]_vars

\* The movie query: every filter, few bodies.
NextQuery ==
    \/ Requests(QueryStrings, {<<>>},
                Bodies({"t1"}, {}, {<<[name |-> "a"]>>, <<[name |-> "b"]>>,
                                    <<[name |-> "a"], [name |-> "b"]>>}))
    \/ Respond

SpecQuery == Init /\ [][NextQuery]_vars

\* ------------------------------------------------- two requests in parallel
\* Two workers answer one POST /movies/ each at the same time.  No view or
\* serializer opens a transaction or takes a lock, so every ORM call of
\* MovieSerializer.create is a step of its own and the steps of the two
\* workers interleave.  Here request and response hold one entry per worker;
\* a request carries the worker's position (pc) and its local variables.
Workers == {"w1", "w2"}

RaceBodies ==
    {[title |-> "t1", genres |-> g] : g \in GenreLists \ {<<>>, <<[name |-> ""]>>}}

WaitingWorker ==
    [op |-> "none", user |-> "u1", data |-> Empty, pc |-> "idle",
     genre_list |-> <<>>, movie |-> 0, genre_obj |-> 0]

InitRace ==
    /\ movies = Empty
    /\ nextMovieId = 1
    /\ genres = Empty
    /\ nextGenreId = 1
    /\ movie_genres = {}
    /\ files = {}
    /\ request = [w \in Workers |-> WaitingWorker]
    /\ response = [w \in Workers |-> Resp(0, <<>>)]

\* MovieSerializer.create up to the loop: genres is popped and the Movie row
\* is inserted for the caller.
RaceCreateMovie(w, user, data) ==
    /\ request[w].pc = "idle"
    /\ nextMovieId <= MaxMovies
    /\ MovieDataValid(data, FALSE)
    /\ movies' = With(movies, nextMovieId,
                      [user |-> user, title |-> MovieValidatedData(data).title,
                       image |-> NoImage])
    /\ nextMovieId' = nextMovieId + 1
    /\ request' = [request EXCEPT
                     ![w] = [op |-> "movie-create", user |-> user,
                             data |-> data, pc |-> "get",
                             genre_list |-> MovieValidatedData(data).genres,
                             movie |-> nextMovieId, genre_obj |-> 0]]
    /\ UNCHANGED <<genres, nextGenreId, movie_genres, files, response>>

\* get_or_create, first half: Genre.objects.get(user=auth_user, name=name).
\* One row: it is the genre.  No row: the insert follows.  Several rows:
\* MultipleObjectsReturned ends the request.
RaceGetGenre(w) ==
    LET r == request[w]
        found == {g \in DOMAIN genres :
                     /\ genres[g].user = r.user
                     /\ genres[g].name = Head(r.genre_list).name}
    IN  /\ r.pc = "get"
        /\ IF Cardinality(found) > 1
           THEN /\ request' = [request EXCEPT ![w].pc = "done"]
                /\ response' = [response EXCEPT ![w] = Resp(500, <<>>)]
           ELSE IF found = {}
           THEN /\ request' = [request EXCEPT ![w].pc = "create"]
                /\ UNCHANGED response
           ELSE /\ request' = [request EXCEPT
                                 ![w].pc = "add",
                                 ![w].genre_obj = CHOOSE g \in found : TRUE]
                /\ UNCHANGED response
        /\ UNCHANGED db

\* get_or_create, second half: the row get() did not find is inserted.
RaceInsertGenre(w) ==
    LET r == request[w]
    IN  /\ r.pc = "create"
        /\ nextGenreId <= MaxGenres
        /\ genres' = With(genres, nextGenreId,
                          [user |-> r.user, name |-> Head(r.genre_list).name])
        /\ nextGenreId' = nextGenreId + 1
        /\ request' = [request EXCEPT ![w].pc = "add",
                                      ![w].genre_obj = nextGenreId]
        /\ UNCHANGED <<movies, nextMovieId, movie_genres, files, response>>

\* movie.genres.add(genre_obj), then the next descriptor or the 201.
RaceAddGenre(w) ==
    LET r == request[w]
        last == Len(r.genre_list) = 1
    IN  /\ r.pc = "add"
        /\ movie_genres' = movie_genres \cup {<<r.movie, r.genre_obj>>}
        /\ request' = [request EXCEPT
                         ![w].pc = IF last THEN "done" ELSE "get",
                         ![w].genre_list = Tail(r.genre_list)]
        /\ response' =
              IF last
              THEN [response EXCEPT
                      ![w] = Resp(201, <<SerializeMovieDetail(
                                           movies, genres, movie_genres',
                                           r.movie)>>)]
              ELSE response
        /\ UNCHANGED <<movies, nextMovieId, genres, nextGenreId, files>>

NextRace ==
    \/ \E w \in Workers, user \in Users, data \in RaceBodies :
          RaceCreateMovie(w, user, data)
    \/ \E w \in Workers : RaceGetGenre(w)
    \/ \E w \in Workers : RaceInsertGenre(w)
    \/ \E w \in Workers : RaceAddGenre(w)

SpecRace == InitRace /\ [][NextRace]_vars

\* ============================================================== properties
\* A step that handles a request (any step but Respond).
Handles == Idle /\ request'.op # "none"

MovieDetailOps == {"movie-retrieve", "movie-update", "movie-destroy",
                   "movie-upload-image"}

GenreDetailOps == {"genre-update", "genre-destroy"}

GenresOf(m) == {g \in DOMAIN genres : <<m, g>> \in movie_genres}

SeqRange(s) == {s[i] : i \in 1..Len(s)}

\* The ids a well-formed filter names.
FilterIds(qs) == SeqRange(ParamsToInts(qs).ids)

\* C1: every movie in a movie list returned to a user (filtered or not) and
\* every genre in a genre list returned to a user is owned by that user.
ListsOnlyOwnRecords ==
    /\ request.op = "movie-list" /\ response.status = 200 =>
          \A i \in 1..Len(response.data) :
             /\ response.data[i].id \in DOMAIN movies
             /\ movies[response.data[i].id].user = request.user
    /\ request.op = "genre-list" =>
          \A i \in 1..Len(response.data) :
             /\ response.data[i].id \in DOMAIN genres
             /\ genres[response.data[i].id].user = request.user

\* C1 witness: a filtered list came back non-empty while another user's
\* movie carries a genre the filter names.
FilteredListBesideForeignMatch ==
    /\ request.op = "movie-list" /\ response.status = 200
    /\ request.qs # <<>>
    /\ Len(response.data) > 0
    /\ \E m \in DOMAIN movies :
          /\ movies[m].user # request.user
          /\ GenresOf(m) \cap FilterIds(request.qs) # {}

\* C2: a retrieve, update, delete or upload-image request on a movie, or an
\* update or delete request on a genre, that another user owns is answered
\* 404 and changes nothing.
ForeignRecordNotFound ==
    [][Handles =>
         /\ (/\ request'.op \in MovieDetailOps
             /\ request'.pk \in DOMAIN movies
             /\ movies[request'.pk].user # request'.user)
               => response'.status = 404 /\ db' = db
         /\ (/\ request'.op \in GenreDetailOps
             /\ request'.pk \in DOMAIN genres
             /\ genres[request'.pk].user # request'.user)
               => response'.status = 404 /\ db' = db]_vars

\* C3: no request changes the owner of an existing movie, and a created
\* movie is owned by the caller, whatever `user` the body carries.
MovieOwnerFixed ==
    [][Handles =>
         /\ \A m \in DOMAIN movies \cap DOMAIN movies' :
               movies'[m].user = movies[m].user
         /\ \A m \in DOMAIN movies' \ DOMAIN movies :
               movies'[m].user = request'.user]_vars

\* C3 witness: the owner's update carrying another user's id was accepted.
UpdateCarryingOtherUserAccepted ==
    /\ request.op = "movie-update" /\ response.status = 200
    /\ "user" \in DOMAIN request.data
    /\ request.data.user # request.user

\* C4: every genre attached to a movie has the movie's owner.
AttachedGenresShareOwner ==
    \A l \in movie_genres :
       (l[1] \in DOMAIN movies /\ l[2] \in DOMAIN genres)
          => genres[l[2]].user = movies[l[1]].user

\* C4 witness: a create or update supplied a name that another user owned
\* first (a lower id), and the movie got the caller's later genre.
ReconciledBesideForeignNamesake ==
    /\ request.op \in {"movie-create", "movie-update"}
    /\ response.status \in {200, 201}
    /\ "genres" \in DOMAIN request.data
    /\ \E g \in GenresOf(response.data[1].id), h \in DOMAIN genres :
          /\ h < g
          /\ genres[h].name = genres[g].name
          /\ genres[h].user # request.user
          /\ [name |-> genres[g].name] \in SeqRange(request.data.genres)

\* C5: a request that fails with a server error leaves the tables as they
\* were before it.
FailedRequestChangesNothing ==
    [][(Handles /\ response'.status = 500) => db' = db]_vars

\* A create or update that passed the lookup and the validation.
Accepted == response.status \notin {400, 404}

\* The movie a create or update request is about.
TargetMovie ==
    IF request.op = "movie-create" THEN nextMovieId - 1 ELSE request.pk

\* C6: a create or update that supplies genre names succeeds, and for each
\* name the caller then owns exactly one genre of that name, attached to
\* the movie.
ReconciliationFindsOrCreatesOne ==
    (/\ request.op \in {"movie-create", "movie-update"}
     /\ "genres" \in DOMAIN request.data
     /\ Accepted)
       => /\ response.status \in {200, 201}
          /\ \A d \in SeqRange(request.data.genres) :
                LET owned == {g \in DOMAIN genres :
                                 /\ genres[g].user = request.user
                                 /\ genres[g].name = d.name}
                IN  /\ Cardinality(owned) = 1
                    /\ owned \subseteq GenresOf(TargetMovie)

\* C7: after an update that supplies a genre list, the movie's genres are
\* exactly the caller's genres the list names.
UpdateReplacesGenreSet ==
    (/\ request.op = "movie-update"
     /\ "genres" \in DOMAIN request.data
     /\ Accepted)
       => GenresOf(request.pk) =
             {g \in DOMAIN genres :
                 /\ genres[g].user = request.user
                 /\ [name |-> genres[g].name] \in SeqRange(request.data.genres)}

\* C8: an update without the genres key changes no junction row and no
\* genre, no other movie, and of its movie only the fields the body names
\* (never the owner); accepted, it sets those fields to the body's values.
UpdateWithoutGenresKeepsGenres ==
    [][(/\ Handles
        /\ request'.op = "movie-update"
        /\ "genres" \notin DOMAIN request'.data)
         => /\ movie_genres' = movie_genres
            /\ genres' = genres
            /\ nextGenreId' = nextGenreId
            /\ DOMAIN movies' = DOMAIN movies
            /\ \A m \in DOMAIN movies :
                  \A f \in DOMAIN movies[m] :
                     \/ movies'[m][f] = movies[m][f]
                     \/ /\ m = request'.pk
                        /\ f \in DOMAIN request'.data \ {"user"}
            /\ response'.status = 200 =>
                  \A f \in DOMAIN request'.data \ {"user"} :
                     movies'[request'.pk][f] = request'.data[f]]_vars

\* C8 witness: an accepted update that carries a title and no genres key, on
\* a movie that has genres.
UpdateOfTitleOnTaggedMovie ==
    /\ request.op = "movie-update" /\ response.status = 200
    /\ DOMAIN request.data = {"title"}
    /\ movies[request.pk].title = "t2"
    /\ GenresOf(request.pk) # {}

\* A filter whose every piece is a decimal literal.
WellFormed(qs) == qs # <<>> /\ \A i \in 1..Len(Split(qs)) : ~IntRaises(Split(qs)[i])

\* C9: a list filtered by the genre ids S holds each of the caller's movies
\* attached to a genre of S exactly once, and no other movie.
FilteredListIsTheUnion ==
    (request.op = "movie-list" /\ WellFormed(request.qs))
       => /\ response.status = 200
          /\ {response.data[i].id : i \in 1..Len(response.data)} =
                {m \in DOMAIN movies :
                    /\ movies[m].user = request.user
                    /\ GenresOf(m) \cap FilterIds(request.qs) # {}}
          /\ \A i, j \in 1..Len(response.data) :
                response.data[i].id = response.data[j].id => i = j

\* C9 witness: the list holds a movie attached to two genres of the filter,
\* and the caller has a movie attached to none.
ListedMovieMatchesTwice ==
    /\ request.op = "movie-list" /\ response.status = 200
    /\ WellFormed(request.qs)
    /\ \E i \in 1..Len(response.data) :
          Cardinality(GenresOf(response.data[i].id)
                         \cap FilterIds(request.qs)) = 2
    /\ \E m \in DOMAIN movies :
          /\ movies[m].user = request.user
          /\ GenresOf(m) \cap FilterIds(request.qs) = {}

\* C10: a list request whose filter has a piece that is no integer is
\* answered 400.
MalformedFilterIsRejected ==
    (/\ request.op = "movie-list"
     /\ request.qs # <<>>
     /\ ~WellFormed(request.qs))
       => response.status = 400

\* C11: the owner's delete of a genre is answered 204, removes the genre
\* and exactly the junction rows that reference it and changes no movie; and
\* in every state each junction row joins an existing movie and an existing
\* genre.
GenreDeleteDetaches ==
    /\ [](\A l \in movie_genres :
             l[1] \in DOMAIN movies /\ l[2] \in DOMAIN genres)
    /\ [][(/\ Handles
           /\ request'.op = "genre-destroy"
           /\ request'.pk \in DOMAIN genres
           /\ genres[request'.pk].user = request'.user)
            => /\ response'.status = 204
               /\ request'.pk \notin DOMAIN genres'
               /\ \A g \in DOMAIN genres \ {request'.pk} :
                     g \in DOMAIN genres' /\ genres'[g] = genres[g]
               /\ movies' = movies
               /\ \A m \in DOMAIN movies :
                     {l[2] : l \in {x \in movie_genres' : x[1] = m}} =
                        {l[2] : l \in {x \in movie_genres : x[1] = m}}
                           \ {request'.pk}]_vars

\* C11 witness: a genre was deleted and a movie of its owner still carries
\* another genre.
GenreDeletedBesideTaggedMovie ==
    /\ request.op = "genre-destroy" /\ response.status = 204
    /\ request.pk \notin DOMAIN genres
    /\ \E m \in DOMAIN movies :
          movies[m].user = request.user /\ GenresOf(m) # {}

\* C12: the owner's upload-image request whose body is no decodable image is
\* answered 400 and changes nothing, no stored file included; and a movie's
\* image reference changes only by an upload-image request on it that
\* carries a decodable image.
InvalidImageIsRejected ==
    [][Handles =>
         /\ (/\ request'.op = "movie-upload-image"
             /\ request'.pk \in DOMAIN movies
             /\ movies[request'.pk].user = request'.user
             /\ ~ImageDataValid(request'.data))
               => response'.status = 400 /\ db' = db
         /\ \A m \in DOMAIN movies \cap DOMAIN movies' :
               movies'[m].image # movies[m].image =>
                  /\ request'.op = "movie-upload-image"
                  /\ request'.pk = m
                  /\ ImageDataValid(request'.data)]_vars

\* C13: when two workers have answered creates of the same user, for every
\* name both supplied that user owns exactly one genre of that name, and it
\* is attached to both movies.
ParallelReconciliationFindsOrCreatesOne ==
    \A v, w \in Workers :
       (/\ v # w
        /\ request[v].pc = "done" /\ request[w].pc = "done"
        /\ request[v].user = request[w].user)
          => \A d \in SeqRange(request[v].data.genres)
                         \cap SeqRange(request[w].data.genres) :
                LET owned == {g \in DOMAIN genres :
                                 /\ genres[g].user = request[v].user
                                 /\ genres[g].name = d.name}
                IN  /\ Cardinality(owned) = 1
                    /\ \A g \in owned :
                          /\ <<request[v].movie, g>> \in movie_genres
                          /\ <<request[w].movie, g>> \in movie_genres

====
